---------------------------- MODULE Spec2Model ----------------------------
(***************************************************************************)
(* signal_message_processor.py: the read loop of main(), the ingestion of  *)
(* `receive` notifications (process_incoming_message) and the resolution   *)
(* of getAttachment responses (process_attachment_response).               *)
(*                                                                         *)
(* Python strings that the code concatenates, searches or decodes are      *)
(* sequences of one-character strings; None is the string "None" where the *)
(* value is a scalar and the record NoneRec where it is a JSON object.     *)
(***************************************************************************)
EXTENDS Integers, Sequences, FiniteSets, TLC

VARIABLES
    messages,             \* rows of table `messages` as seen through `cursor`; id = index
    durable,              \* rows as of the last successful conn.commit()
    pending_attachments,  \* request_id -> [message_id, attachment_id]
    stdin,                \* request frames written to signal-cli's stdin, in order
    files,                \* attachment directory: file path -> bytes
    now,                  \* int(time.time() * 1000) when line 180 last read the clock
    logged,               \* log records emitted by the last loop iteration
    resolved,             \* message id -> responses to its requests whose file was written
    line,                 \* the line the last loop iteration read
    fault,                \* the call that raised during the last loop iteration
    faults,               \* calls that have raised since main() started
    pc,                   \* "loop" while main() is in its while loop, else how it left
    agent,                \* the signal-cli subprocess: "running" or "terminated"
    conn_open,            \* the sqlite connection is open
    finally_calls         \* the calls the finally block of main() has made, in order

vars == <<messages, durable, pending_attachments, stdin, files, now, logged,
          resolved, line, fault, faults, pc, agent, conn_open, finally_calls>>

-----------------------------------------------------------------------------
(* Bounds of the model *)

Epoch == 10            \* the clock when main() starts
MaxMessages == 2       \* rows inserted in one run
MaxRequests == 2       \* request frames written in one run
(* the same where calls of the store, the transport and the file system may raise *)
MaxFaults == 1         \* calls that raise in one run
FaultyMessages == 1
FaultyRequests == 1

Reliable == [messages |-> MaxMessages, requests |-> MaxRequests, faults |-> 0]
Faulty == [messages |-> FaultyMessages, requests |-> FaultyRequests, faults |-> MaxFaults]

-----------------------------------------------------------------------------
(* Values *)

None == "None"
NoneRec == [none |-> TRUE]

AttachmentDir == <<"d">>          \* config attachmentDirectory

IdA == <<"a">>
IdBPng == <<"b", ".", "p", "n", "g">>
AttachmentIds == {IdA, IdBPng}

RECURSIVE SeqsUpTo(_, _)
SeqsUpTo(S, n) ==
    IF n = 0 THEN {<<>>}
    ELSE LET shorter == SeqsUpTo(S, n - 1)
         IN  shorter \cup {Append(s, x) : s \in {t \in shorter : Len(t) = n - 1}, x \in S}

AttachmentLists == SeqsUpTo({[id |-> a] : a \in AttachmentIds}, MaxRequests)

Group == [groupId |-> "G1", groupName |-> "Team"]
Quote == [id |-> "1699", author |-> "bob", text |-> "earlier"]

B64X == <<"W", "A", "=", "=">>    \* base64 of "X"
B64Bad == <<"W">>                 \* incorrect padding

-----------------------------------------------------------------------------
(* str(int): decimal digits *)

DigitChar(d) == CASE d = 0 -> "0" [] d = 1 -> "1" [] d = 2 -> "2" [] d = 3 -> "3"
                  [] d = 4 -> "4" [] d = 5 -> "5" [] d = 6 -> "6" [] d = 7 -> "7"
                  [] d = 8 -> "8" [] d = 9 -> "9"

RECURSIVE Str(_)
Str(n) == IF n < 10 THEN <<DigitChar(n)>> ELSE Append(Str(n \div 10), DigitChar(n % 10))

(* line 180: request_id = str(int(time.time() * 1000)) + str(attachment_id) *)
RequestId(t, attachment_id) == Str(t) \o attachment_id

-----------------------------------------------------------------------------
(* base64.b64decode(s), validate=False: characters outside the alphabet are *)
(* dropped, data ends at the first "=", and the padding must complete the  *)
(* last group of four.                                                     *)

B64Alphabet ==
    <<"A","B","C","D","E","F","G","H","I","J","K","L","M","N","O","P",
      "Q","R","S","T","U","V","W","X","Y","Z","a","b","c","d","e","f",
      "g","h","i","j","k","l","m","n","o","p","q","r","s","t","u","v",
      "w","x","y","z","0","1","2","3","4","5","6","7","8","9","+","/">>

B64Chars == {B64Alphabet[i] : i \in 1..64}
Sextet(c) == (CHOOSE i \in 1..64 : B64Alphabet[i] = c) - 1

RECURSIVE DataPrefix(_)
DataPrefix(s) ==
    IF s = <<>> \/ Head(s) = "=" THEN <<>>
    ELSE IF Head(s) \in B64Chars THEN <<Head(s)>> \o DataPrefix(Tail(s))
    ELSE DataPrefix(Tail(s))

Count(s, c) == Cardinality({i \in 1..Len(s) : s[i] = c})

RECURSIVE DecodeGroups(_)
DecodeGroups(d) ==
    IF Len(d) >= 4 THEN
        LET v == Sextet(d[1]) * 262144 + Sextet(d[2]) * 4096 + Sextet(d[3]) * 64 + Sextet(d[4])
        IN  <<v \div 65536, (v \div 256) % 256, v % 256>> \o DecodeGroups(SubSeq(d, 5, Len(d)))
    ELSE IF Len(d) = 3 THEN
        LET v == Sextet(d[1]) * 4096 + Sextet(d[2]) * 64 + Sextet(d[3])
        IN  <<v \div 1024, (v \div 4) % 256>>
    ELSE IF Len(d) = 2 THEN
        <<(Sextet(d[1]) * 64 + Sextet(d[2])) \div 16>>
    ELSE <<>>

B64Decode(s) ==
    LET d == DataPrefix(s)
        pads == Count(s, "=")
        r == Len(d) % 4
    IN  IF r = 1 \/ (r = 2 /\ pads < 2) \/ (r = 3 /\ pads < 1)
        THEN [ok |-> FALSE, bytes |-> <<>>]          \* binascii.Error
        ELSE [ok |-> TRUE, bytes |-> DecodeGroups(d)]

-----------------------------------------------------------------------------
(* File name and path *)

DefaultContentType == "application/octet-stream"

(* lines 33-36; the table is mimetypes' *)
get_extension_from_content_type(content_type) ==
    CASE content_type = "image/png" -> <<".", "p", "n", "g">>
      [] content_type = "text/plain" -> <<".", "t", "x", "t">>
      [] content_type = DefaultContentType -> <<".", "b", "i", "n">>
      [] OTHER -> <<>>

Contains(s, c) == \E i \in 1..Len(s) : s[i] = c

(* lines 226-230 *)
FileName(attachment_id, content_type) ==
    IF Contains(attachment_id, ".") THEN attachment_id
    ELSE attachment_id \o get_extension_from_content_type(content_type)

(* line 232: os.path.join *)
PathJoin(dir, name) ==
    IF name # <<>> /\ Head(name) = "/" THEN name
    ELSE IF dir = <<>> \/ dir[Len(dir)] = "/" THEN dir \o name
    ELSE dir \o <<"/">> \o name

FilePath(attachment_id, content_type) ==
    PathJoin(AttachmentDir, FileName(attachment_id, content_type))

-----------------------------------------------------------------------------
(* Lines read from signal-cli's stdout *)

NoId == <<>>                       \* the frame has no "id" key
NoFault == [at |-> "none", k |-> 0]

Frame(kind, method, id, envelope, result) ==
    [kind |-> kind, method |-> method, id |-> id, envelope |-> envelope, result |-> result]

NoLine == Frame("none", None, NoId, NoneRec, NoneRec)       \* nothing read yet
EofLine == Frame("eof", None, NoId, NoneRec, NoneRec)       \* readline() returned ''
BlankLine == Frame("blank", None, NoId, NoneRec, NoneRec)   \* whitespace only
GarbageLine == Frame("garbage", None, NoId, NoneRec, NoneRec)  \* json.loads raises
(* valid JSON that is not an object *)
ScalarLines == {Frame(k, None, NoId, NoneRec, NoneRec) : k \in {"number", "string", "array", "null"}}

DataMessages ==
    {NoneRec} \cup
    [groupInfo : {NoneRec, Group}, message : {None, "", "hello"},
     attachments : AttachmentLists, quote : {NoneRec, Quote}]

(* the persistable notifications read: a text, quoting or not, and *)
(* attachments without a text                                      *)
Shapes(dm) ==
    \/ dm.message = "hello" /\ dm.quote = Quote /\ dm.attachments = <<>>
    \/ dm.message = None /\ dm.quote = NoneRec /\ dm.attachments # <<>>

Envelopes ==
    [source : {"+4211"}, sourceName : {"alice"}, timestamp : {1700}, dataMessage : DataMessages]

(* the return of line 145 is missing *)
PersistableThoughEmpty(envelope) ==
    /\ envelope.dataMessage # NoneRec
    /\ envelope.dataMessage.groupInfo # NoneRec

(* lines 132-145: the notification passes the three early returns *)
Persistable(envelope) ==
    LET dm == envelope.dataMessage
    IN  /\ dm # NoneRec
        /\ dm.groupInfo # NoneRec
        /\ ~(dm.message \in {None, ""} /\ dm.attachments = <<>>)

(* one notification of each ignored kind is enough: the fields past the early *)
(* return that drops it are never read                                         *)
ReceiveEnvelopes ==
    {e \in Envelopes :
        \/ Persistable(e) /\ Shapes(e.dataMessage)
        \/ e.dataMessage = NoneRec
        \/ /\ e.dataMessage # NoneRec
           /\ e.dataMessage.quote = NoneRec
           /\ \/ e.dataMessage.groupInfo = NoneRec /\ e.dataMessage.message = "hello"
                   /\ Len(e.dataMessage.attachments) = 1
              \/ e.dataMessage.groupInfo = Group /\ e.dataMessage.message = ""
                   /\ e.dataMessage.attachments = <<>>}

ReceiveLines == {Frame("object", "receive", NoId, e, NoneRec) : e \in ReceiveEnvelopes}

Results ==
    {NoneRec, [data |-> <<>>, contentType |-> None], [data |-> B64Bad, contentType |-> None]}
    \cup [data : {B64X}, contentType : {"image/png"}]

(* ids a response can carry: any id ever requested, or one never requested *)
ForeignId == <<"9", "z">>
KnownIds == {stdin[i].id : i \in 1..Len(stdin)} \cup DOMAIN pending_attachments
(* a response to an outstanding request carries any result; of the responses *)
(* to no outstanding request, whose result is never read, one that carries   *)
(* data; and a frame with an id and another method, as a request has         *)
ResponseLines ==
    {Frame("object", None, id, NoneRec, r) : id \in DOMAIN pending_attachments, r \in Results}
    \cup {Frame("object", None, id, NoneRec, [data |-> B64X, contentType |-> "image/png"]) :
              id \in (KnownIds \cup {ForeignId}) \ DOMAIN pending_attachments}
    \cup {Frame("object", "other", id, NoneRec, NoneRec) : id \in DOMAIN pending_attachments}

UnrecognizedLines == {Frame("object", m, NoId, NoneRec, NoneRec) : m \in {None, "other"}}

Log(level, msg) == [level |-> level, msg |-> msg]

-----------------------------------------------------------------------------
(* process_incoming_message, lines 130-205 *)

Raises(f, call) == f.at = call
RaisesAt(f, call, i) == f = [at |-> call, k |-> i]

(* the calls of the handler that can raise for this notification *)
IngestFaults(envelope) ==
    IF Persistable(envelope)
    THEN {NoFault, [at |-> "insert", k |-> 0], [at |-> "commit", k |-> 0]}
         \cup [at : {"write", "flush"}, k : 1..Len(envelope.dataMessage.attachments)]
    ELSE {NoFault}

(* the quote block is never read *)
NewRowWithoutQuote(message_id, envelope) ==
    [id |-> message_id,
     source |-> envelope.source,
     sourceName |-> envelope.sourceName,
     timestamp |-> envelope.timestamp,
     message |-> envelope.dataMessage.message,
     groupId |-> envelope.dataMessage.groupInfo.groupId,
     groupName |-> envelope.dataMessage.groupInfo.groupName,
     attachmentPaths |-> <<>>,
     attachmentDescriptions |-> "",
     processedAt |-> None,
     quoteId |-> None,
     quoteAuthor |-> None,
     quoteText |-> None]

(* lines 147-170: the row the INSERT writes *)
NewRow(message_id, envelope) ==
    LET dataMessage == envelope.dataMessage
        quote == dataMessage.quote
    IN  [id |-> message_id,
         source |-> envelope.source,
         sourceName |-> envelope.sourceName,
         timestamp |-> envelope.timestamp,
         message |-> dataMessage.message,
         groupId |-> dataMessage.groupInfo.groupId,
         groupName |-> dataMessage.groupInfo.groupName,
         attachmentPaths |-> <<>>,
         attachmentDescriptions |-> "",
         processedAt |-> None,
         quoteId |-> IF quote # NoneRec THEN quote.id ELSE None,
         quoteAuthor |-> IF quote # NoneRec THEN quote.author ELSE None,
         quoteText |-> IF quote # NoneRec THEN quote.text ELSE None]

(* lines 181-189 *)
Request(attachment_id, groupId, request_id) ==
    [jsonrpc |-> "2.0", method |-> "getAttachment",
     params |-> [id |-> attachment_id, groupId |-> groupId], id |-> request_id]

(* the frame is put before the frames written earlier *)
WriteFirst(frames, request) == <<request>> \o frames

(* line 195: stdin.write(json.dumps(request) + '\n') *)
Write(frames, request) == Append(frames, request)

(* the entry names the row after the one inserted *)
RegisterUnsavedRow(pending, request_id, message_id, attachment_id) ==
    (request_id :> [message_id |-> message_id + 1, attachment_id |-> attachment_id]) @@ pending

(* lines 199-202: pending_attachments[request_id] = {...} *)
Register(pending, request_id, message_id, attachment_id) ==
    (request_id :> [message_id |-> message_id, attachment_id |-> attachment_id]) @@ pending

(* lines 177-202: the for loop from attachment i on; ticks[i] is the time that *)
(* passed between the previous reading of the clock, in this notification or  *)
(* an earlier one, and this one                                               *)
RECURSIVE IssueRequests(_, _, _, _, _, _, _)
IssueRequests(attachments, i, st, message_id, groupId, f, ticks) ==
    IF i > Len(attachments) THEN st
    ELSE
        LET attachment_id == attachments[i].id
            t == st.now + ticks[i]
            request_id == RequestId(t, attachment_id)
            request == Request(attachment_id, groupId, request_id)
        IN  IF RaisesAt(f, "write", i)
            THEN [st EXCEPT !.now = t, !.raised = TRUE]
            ELSE IF RaisesAt(f, "flush", i)
            THEN [st EXCEPT !.now = t, !.stdin = Write(@, request), !.raised = TRUE]
            ELSE IssueRequests(attachments, i + 1,
                    [stdin |-> Write(st.stdin, request),
                     pending |-> Register(st.pending, request_id, message_id, attachment_id),
                     now |-> t,
                     raised |-> FALSE],
                    message_id, groupId, f, ticks)

Unchanged ==
    [messages |-> messages, durable |-> durable, pending |-> pending_attachments,
     stdin |-> stdin, files |-> files, now |-> now, logged |-> <<>>]

process_incoming_message(message, f, ticks) ==
    LET envelope == message.envelope
        dataMessage == envelope.dataMessage
    IN  IF ~Persistable(envelope) THEN Unchanged      \* the returns of lines 135, 139, 145
        ELSE
            LET message_id == Len(messages) + 1        \* cursor.lastrowid
                inserted == Append(messages, NewRow(message_id, envelope))
                failed == <<Log("ERROR", "Error processing message")>>
                issued == IssueRequests(dataMessage.attachments, 1,
                              [stdin |-> stdin, pending |-> pending_attachments,
                               now |-> now, raised |-> FALSE],
                              message_id, dataMessage.groupInfo.groupId, f, ticks)
            IN  IF Raises(f, "insert") THEN [Unchanged EXCEPT !.logged = failed]
                ELSE IF Raises(f, "commit")
                THEN [Unchanged EXCEPT !.messages = inserted, !.logged = failed]
                ELSE [messages |-> inserted,
                      durable |-> inserted,
                      pending |-> issued.pending,
                      stdin |-> issued.stdin,
                      files |-> files,
                      now |-> issued.now,
                      logged |-> <<Log("INFO", "Saved message")>>
                                 \o (IF issued.raised THEN failed ELSE <<>>)]

-----------------------------------------------------------------------------
(* process_attachment_response, lines 207-256 *)

(* the entry is read and left in place *)
PopNothing(pending, request_id) == pending

(* line 213: pending_attachments.pop(request_id) *)
Pop(pending, request_id) == [r \in DOMAIN pending \ {request_id} |-> pending[r]]

Resolvable(message) ==
    /\ message.id \in DOMAIN pending_attachments
    /\ message.result # NoneRec
    /\ message.result.data # <<>>
    /\ B64Decode(message.result.data).ok

ResolveFaults(message) ==
    IF Resolvable(message)
    THEN {NoFault} \cup [at : {"open", "select", "update", "commit"}, k : {0}]
    ELSE {NoFault}

(* the new path is put before the paths read back *)
StorePathFirst(rows, message_id, file_path) ==
    [rows EXCEPT ![message_id].attachmentPaths = <<file_path>> \o @]

(* the list read back is written without the new path *)
StorePathUnchanged(rows, message_id, file_path) == rows

(* lines 242-244: the list read back, with the path appended, is written *)
StorePath(rows, message_id, file_path) ==
    [rows EXCEPT ![message_id].attachmentPaths = Append(@, file_path)]

(* nothing is logged for the response that brought no payload *)
FetchFailureSilent(popped, msg) == popped

(* lines 250-253: the response brought no result, or a result without data *)
FetchFailure(popped, msg) == [popped EXCEPT !.logged = <<Log("ERROR", msg)>>]

(* the data is decoded and no file is written *)
WriteFileNowhere(dir, file_path, data) == dir

(* lines 233-234: open(file_path, 'wb') and f.write(attachment_data) *)
WriteFile(dir, file_path, data) == (file_path :> data) @@ dir

(* the handler puts the entry back when the resolution raises *)
CatchRestoresEntry(after, entries) ==
    [after EXCEPT !.pending = pending_attachments,
                  !.logged = entries \o <<Log("ERROR", "Error processing attachment response")>>]

(* lines 255-256: what the resolution did before it raised stays, and the *)
(* exception is logged after the entries logged before it                *)
Catch(after, entries) ==
    [after EXCEPT !.logged = entries \o <<Log("ERROR", "Error processing attachment response")>>]

(* lines 213-256: the response matched an entry *)
Resolve(message, request_id, f) ==
        LET pending_info == pending_attachments[request_id]
            message_id == pending_info.message_id
            attachment_id == pending_info.attachment_id
            popped == [Unchanged EXCEPT !.pending = Pop(pending_attachments, request_id)]
            result == message.result
        IN  IF result = NoneRec
            THEN FetchFailure(popped, "No result in response")
            ELSE IF result.data = <<>>
            THEN FetchFailure(popped, "No data in attachment response")
            ELSE
                LET attachment_data == B64Decode(result.data)
                    content_type == IF result.contentType = None THEN DefaultContentType
                                    ELSE result.contentType
                    file_path == FilePath(attachment_id, content_type)
                    downloaded == <<Log("INFO", "Downloaded attachment")>>
                    written == [popped EXCEPT
                                   !.files = WriteFile(files, file_path, attachment_data.bytes),
                                   !.logged = downloaded]
                    updated == StorePath(messages, message_id, file_path)
                IN  IF ~attachment_data.ok \/ Raises(f, "open")
                    THEN Catch(popped, <<>>)
                    ELSE IF Raises(f, "select")
                    THEN Catch(written, downloaded)
                    ELSE IF message_id \notin 1..Len(messages)
                    THEN [written EXCEPT !.logged =
                              downloaded \o <<Log("ERROR", "Message id not found")>>]
                    ELSE IF Raises(f, "update")
                    THEN Catch(written, downloaded)
                    ELSE IF Raises(f, "commit")
                    THEN Catch([written EXCEPT !.messages = updated], downloaded)
                    ELSE [written EXCEPT !.messages = updated, !.durable = updated,
                                         !.logged = downloaded \o <<Log("INFO", "Updated message")>>]

(* the response to no outstanding request is dropped without a word *)
UnknownCorrelationSilent == Unchanged

(* lines 209-211 *)
UnknownCorrelation ==
    [Unchanged EXCEPT !.logged = <<Log("ERROR", "Received response for unknown request id")>>]

process_attachment_response(message, request_id, f) ==
    IF request_id \notin DOMAIN pending_attachments
    THEN UnknownCorrelation
    ELSE Resolve(message, request_id, f)

-----------------------------------------------------------------------------
(* main, lines 93-128 *)

(* lines 112-120: what one decoded JSON object does *)
Dispatch(message, f, ticks) ==
    IF message.method = "receive"
    THEN process_incoming_message(message, f, ticks)
    ELSE IF message.id # NoId
    THEN process_attachment_response(message, message.id, f)
    ELSE [Unchanged EXCEPT !.logged = <<Log("WARNING", "Unknown message type")>>]

(* the time that passes between two readings of the clock: none, or some; *)
(* some has passed since main() started when the clock is first read      *)
Ticks(envelope) ==
    LET n == IF Persistable(envelope) THEN Len(envelope.dataMessage.attachments) ELSE 0
    IN  {t \in [1..n -> 0..1] : now = Epoch /\ n > 0 => t[1] = 1}

(* the responses counted for a record: the response matched an entry of the *)
(* record, carried data that decoded, and its file was written (line 234)   *)
Resolved(message, f) ==
    IF message.method # "receive" /\ message.id # NoId /\ Resolvable(message)
       /\ f.at # "open"
    THEN [resolved EXCEPT ![pending_attachments[message.id].message_id] = @ + 1]
    ELSE resolved

StoreCalls == {"insert", "select", "update", "commit"}

(* an error of the store escapes the handler and ends main() *)
AfterHandlerStoreFatal(f) == IF f.at \in StoreCalls THEN "crashed" ELSE "loop"

(* lines 204-205 and 255-256: `except Exception` catches what the call f *)
(* raised, logs it, and the handler returns to the loop                  *)
AfterHandler(f) == "loop"

(* one iteration of the while loop over a line that decodes to a JSON object *)
Handle(l, f, ticks) ==
    LET after == Dispatch(l, f, ticks)
    IN  /\ pc = "loop"
        /\ pc' = AfterHandler(f)
        /\ messages' = after.messages
        /\ durable' = after.durable
        /\ pending_attachments' = after.pending
        /\ stdin' = after.stdin
        /\ files' = after.files
        /\ now' = after.now
        /\ logged' = after.logged
        /\ resolved' = Resolved(l, f)
        /\ line' = l
        /\ fault' = f
        /\ faults' = IF f # NoFault THEN faults + 1 ELSE faults
        /\ UNCHANGED <<agent, conn_open, finally_calls>>

(* B bounds the run: rows inserted, request frames written, calls that raise *)
MayRaise(B, f) == f # NoFault => faults < B.faults

ReadNotification(B) ==
    \E l \in ReceiveLines :
        /\ Persistable(l.envelope) =>
              /\ Len(messages) < B.messages
              /\ Len(stdin) + Len(l.envelope.dataMessage.attachments) <= B.requests
        /\ \E f \in IngestFaults(l.envelope), ticks \in Ticks(l.envelope) :
              MayRaise(B, f) /\ Handle(l, f, ticks)

ReadResponse(B) ==
    \E l \in ResponseLines : \E f \in ResolveFaults(l) :
        MayRaise(B, f) /\ Handle(l, f, <<>>)

ReadUnrecognized ==
    \E l \in UnrecognizedLines : Handle(l, NoFault, <<>>)

(* lines 100-102 and 103-107: the line is skipped *)
Skip(l, entries) ==
    /\ pc = "loop"
    /\ line' = l
    /\ fault' = NoFault
    /\ logged' = entries
    /\ UNCHANGED <<messages, durable, pending_attachments, stdin, files, now, resolved,
                   faults, pc, agent, conn_open, finally_calls>>

ReadBlank == Skip(BlankLine, <<>>)

ReadMalformed == Skip(GarbageLine, <<Log("ERROR", "Failed to parse JSON")>>)

(* the connection is closed before the agent is told to terminate *)
FinallyCloseFirst == <<"close", "terminate", "wait">>

(* lines 126-128: terminate(), wait(), conn.close() *)
Finally == <<"terminate", "wait", "close">>

(* lines 124-128: the finally block; returncode is None as nothing polled it *)
Shutdown(how) ==
    /\ pc = "loop"
    /\ pc' = how
    /\ agent' = "terminated"
    /\ conn_open' = FALSE
    /\ finally_calls' = Finally
    /\ fault' = NoFault
    /\ UNCHANGED <<messages, durable, pending_attachments, stdin, files, now, resolved,
                   faults>>

(* lines 97-99 *)
ReadEOF == Shutdown("eof") /\ line' = EofLine /\ logged' = <<>>

(* line 112 on a value that has no .get: AttributeError, which no handler of *)
(* the loop catches                                                          *)
ReadScalar == \E l \in ScalarLines : Shutdown("crashed") /\ line' = l /\ logged' = <<>>

(* lines 122-123 *)
Interrupt ==
    Shutdown("interrupted") /\ line' = NoLine /\ logged' = <<Log("INFO", "Shutting down...")>>

Init ==
    /\ messages = <<>>
    /\ durable = <<>>
    /\ pending_attachments = [r \in {} |-> NoneRec]
    /\ stdin = <<>>
    /\ files = [p \in {} |-> <<>>]
    /\ now = Epoch
    /\ logged = <<>>
    /\ resolved = [m \in 1..MaxMessages |-> 0]
    /\ line = NoLine
    /\ fault = NoFault
    /\ faults = 0
    /\ pc = "loop"
    /\ agent = "running"
    /\ conn_open = TRUE
    /\ finally_calls = <<>>

Next ==
    \/ ReadNotification(Reliable)
    \/ ReadResponse(Reliable)
    \/ ReadUnrecognized
    \/ ReadBlank
    \/ ReadMalformed
    \/ ReadScalar
    \/ ReadEOF
    \/ Interrupt

(* no call of the store, the transport or the file system raises *)
Spec == Init /\ [][Next]_vars

FaultNext ==
    \/ ReadNotification(Faulty)
    \/ ReadResponse(Faulty)
    \/ ReadUnrecognized
    \/ ReadBlank
    \/ ReadMalformed
    \/ ReadScalar
    \/ ReadEOF
    \/ Interrupt

(* calls may raise *)
FaultSpec == Init /\ [][FaultNext]_vars

-----------------------------------------------------------------------------
(* What a step read and issued *)

IsNotification(l) == l.kind = "object" /\ l.method = "receive"
IsResponse(l) == l.kind = "object" /\ l.method # "receive" /\ l.id # NoId

(* the notification has a content payload, a group descriptor, and a text or *)
(* an attachment                                                             *)
GroupMessage(envelope) ==
    /\ envelope.dataMessage # NoneRec
    /\ envelope.dataMessage.groupInfo # NoneRec
    /\ \/ envelope.dataMessage.message \notin {None, ""}
       \/ Len(envelope.dataMessage.attachments) > 0

(* the request frames the step wrote *)
Issued == SubSeq(stdin', Len(stdin) + 1, Len(stdin'))

Keys(pending) == DOMAIN pending

-----------------------------------------------------------------------------
(* C1: whenever the ingestor registers a request, the identifier it has just *)
(* generated is no key of the table at that moment: it differs from every    *)
(* key the table held before the notification and from the identifiers       *)
(* registered earlier for the same notification.                             *)
C1_FreshRequestId ==
    [][IsNotification(line') =>
          \A i \in 1..Len(Issued) :
              /\ Issued[i].id \notin Keys(pending_attachments)
              /\ \A j \in 1..(i - 1) : Issued[j].id # Issued[i].id]_vars

-----------------------------------------------------------------------------
(* C2: a notification that produces a record and lists n attachments writes *)
(* n request frames and leaves the table with n more entries than before,   *)
(* every one of them owned by the new record.                               *)
C2_OneRequestAndEntryPerAttachment ==
    [][IsNotification(line') /\ Len(messages') = Len(messages) + 1 =>
          LET n == Len(line'.envelope.dataMessage.attachments)
              registered == Keys(pending_attachments') \ Keys(pending_attachments)
          IN  /\ Len(Issued) = n
              /\ Cardinality(Keys(pending_attachments')) =
                     Cardinality(Keys(pending_attachments)) + n
              /\ \A r \in registered :
                     pending_attachments'[r].message_id = Len(messages')]_vars

-----------------------------------------------------------------------------
(* C3: a notification with a content payload, a group descriptor and a text *)
(* or an attachment adds exactly one record, its path list empty and its    *)
(* sender, timestamp, text, group and quote fields those of the             *)
(* notification; the records before it stay as they were, and no step adds  *)
(* more than one record.                                                    *)
RecordOf(row, envelope) ==
    LET dm == envelope.dataMessage
    IN  /\ row.source = envelope.source
        /\ row.sourceName = envelope.sourceName
        /\ row.timestamp = envelope.timestamp
        /\ row.message = dm.message
        /\ row.groupId = dm.groupInfo.groupId
        /\ row.groupName = dm.groupInfo.groupName
        /\ row.attachmentPaths = <<>>
        /\ IF dm.quote = NoneRec
           THEN row.quoteId = None /\ row.quoteAuthor = None /\ row.quoteText = None
           ELSE /\ row.quoteId = dm.quote.id
                /\ row.quoteAuthor = dm.quote.author
                /\ row.quoteText = dm.quote.text

C3_OneRecordPerGroupMessage ==
    [][/\ Len(messages') <= Len(messages) + 1
       /\ IsNotification(line') /\ GroupMessage(line'.envelope) =>
             /\ Len(messages') = Len(messages) + 1
             /\ SubSeq(messages', 1, Len(messages)) = messages
             /\ RecordOf(messages'[Len(messages')], line'.envelope)
             /\ durable' = messages']_vars

(* a quoting text message has been recorded *)
C3_Witness ==
    /\ IsNotification(line)
    /\ GroupMessage(line.envelope)
    /\ line.envelope.dataMessage.quote = Quote
    /\ Len(messages) > 0
    /\ messages[Len(messages)].quoteAuthor = "bob"

-----------------------------------------------------------------------------
(* C4: a notification with no content payload, or no group descriptor, or  *)
(* neither text nor attachments changes nothing: no record, no request     *)
(* frame, no table entry, no file, and nothing is logged.                  *)
C4_IgnoredNotificationChangesNothing ==
    [][IsNotification(line') /\ ~GroupMessage(line'.envelope) =>
          /\ UNCHANGED <<messages, durable, pending_attachments, stdin, files>>
          /\ logged' = <<>>]_vars

(* a direct message with a text and an attachment was read while a request *)
(* was outstanding                                                         *)
C4_Witness ==
    /\ IsNotification(line)
    /\ line.envelope.dataMessage # NoneRec
    /\ line.envelope.dataMessage.groupInfo = NoneRec
    /\ Len(line.envelope.dataMessage.attachments) > 0
    /\ Keys(pending_attachments) # {}
    /\ Len(messages) > 0

-----------------------------------------------------------------------------
(* C5: a response whose id is a key of the table removes that entry and no *)
(* other, so the id is no key right after; a response with the same id     *)
(* read next, before anything is registered, is an unknown correlation: an *)
(* error is logged, no file is written and no record changes.              *)
UnknownLogged ==
    /\ Len(logged') = 1
    /\ logged'[1] = Log("ERROR", "Received response for unknown request id")

C5_EntryRemovedOnce ==
    [][/\ IsResponse(line') /\ line'.id \in Keys(pending_attachments) =>
             /\ Keys(pending_attachments') = Keys(pending_attachments) \ {line'.id}
             /\ \A r \in Keys(pending_attachments') :
                    pending_attachments'[r] = pending_attachments[r]
       /\ IsResponse(line) /\ IsResponse(line') /\ line'.id = line.id =>
             /\ UnknownLogged
             /\ UNCHANGED <<messages, durable, files, pending_attachments, stdin>>]_vars

(* the response to a request that an earlier response had consumed has been *)
(* read, and the record holds the one path the first response stored        *)
C5_Witness ==
    /\ IsResponse(line)
    /\ line.method = None
    /\ line.id \in {stdin[i].id : i \in 1..Len(stdin)}
    /\ line.id \notin Keys(pending_attachments)
    /\ logged = <<Log("ERROR", "Received response for unknown request id")>>
    /\ \E m \in 1..Len(messages) : Len(messages[m].attachmentPaths) = 1

-----------------------------------------------------------------------------
(* C6: a response whose id is no key of the table changes no record, no    *)
(* path list, no table entry and no file, and an error is logged.          *)
C6_UnknownResponseChangesNothing ==
    [][IsResponse(line') /\ line'.id \notin Keys(pending_attachments) =>
          /\ UNCHANGED <<messages, durable, pending_attachments, files, stdin>>
          /\ \E i \in 1..Len(logged') : logged'[i].level = "ERROR"]_vars

(* a response that carries data for an id never requested has been read    *)
(* while another request was outstanding                                    *)
C6_Witness ==
    /\ IsResponse(line)
    /\ line.id = ForeignId
    /\ line.result # NoneRec
    /\ Keys(pending_attachments) # {}
    /\ \E i \in 1..Len(logged) : logged[i].level = "ERROR"

-----------------------------------------------------------------------------
(* C7: the length of every record's path list is the number of responses  *)
(* read so far that matched an entry of the record and whose data was      *)
(* decoded and written to a file; a response, failed or not, writes no     *)
(* request frame.                                                          *)
C7_PathsCountResolvedResponses ==
    /\ [](\A m \in 1..Len(messages) : Len(messages[m].attachmentPaths) = resolved[m])
    /\ [][IsResponse(line') => stdin' = stdin]_vars

(* both requests of a record have been answered, the second without a     *)
(* result, and the record holds the one path of the first                 *)
C7_Witness ==
    /\ IsResponse(line)
    /\ line.result = NoneRec
    /\ logged = <<Log("ERROR", "No result in response")>>
    /\ Len(messages) = 1
    /\ Len(stdin) = 2 /\ stdin[1].id # stdin[2].id
    /\ Keys(pending_attachments) = {}
    /\ Len(messages[1].attachmentPaths) = 1
    /\ resolved[1] = 1

-----------------------------------------------------------------------------
(* C8: no record's path list holds the same path twice. *)
C8_NoDuplicatePaths ==
    \A m \in 1..Len(messages) :
        \A i, j \in 1..Len(messages[m].attachmentPaths) :
            i # j => messages[m].attachmentPaths[i] # messages[m].attachmentPaths[j]

-----------------------------------------------------------------------------
(* C9: every line that is not the end of the stream is discarded or handled *)
(* and the loop goes on to the next line.                                   *)
C9_NoLineStopsTheLoop ==
    line.kind \notin {"none", "eof"} => pc = "loop"

-----------------------------------------------------------------------------
(* C10, as claimed: a call of the store that raises ends the loop. *)
C10_StoreErrorEndsLoop ==
    fault.at \in StoreCalls => pc # "loop"

(* C10, amended: a call of the store that raises is caught in the handler: *)
(* an error is logged, the loop goes on with the agent running and the     *)
(* connection open, and the next line is read.                             *)
C10_StoreErrorCaught ==
    fault.at \in StoreCalls =>
        /\ pc = "loop" /\ agent = "running" /\ conn_open
        /\ logged[Len(logged)].level = "ERROR"
        /\ ENABLED ReadBlank

(* the commit of an attachment-path update has raised *)
C10_Witness ==
    /\ IsResponse(line)
    /\ fault.at = "commit"
    /\ pc = "loop"
    /\ messages # durable

-----------------------------------------------------------------------------
(* C11: when the INSERT or the commit of a notification raises, the error is *)
(* caught and logged, the loop goes on, and the notification leaves nothing  *)
(* behind: the rows the cursor sees, the committed rows, the table, the      *)
(* frames written and the files are those before it, so the lines after it   *)
(* are processed as if it had not arrived.                                   *)
C11_FailedNotificationDropped ==
    [][IsNotification(line') /\ fault'.at \in {"insert", "commit"} =>
          /\ pc' = "loop"
          /\ \E i \in 1..Len(logged') : logged'[i].level = "ERROR"
          /\ UNCHANGED <<messages, durable, pending_attachments, stdin, files>>]_vars

-----------------------------------------------------------------------------
(* C12: a frame that carries a method field, whatever its value, is never    *)
(* handed to the resolver: if its id is the key of an outstanding request,   *)
(* the entry is in the table after the frame as it was before.               *)
C12_MethodFrameKeepsEntry ==
    [][(line'.kind = "object" /\ line'.method # None
            /\ line'.id \in Keys(pending_attachments)) =>
          /\ line'.id \in Keys(pending_attachments')
          /\ pending_attachments'[line'.id] = pending_attachments[line'.id]]_vars

-----------------------------------------------------------------------------
(* C13: the request frames are written in order: every step keeps the frames *)
(* written before it, in their places, and adds frames only after them; the  *)
(* frames a notification adds are for its attachments in the order it lists  *)
(* them; a response, wherever it is interleaved, adds none.                  *)
C13_RequestsInOrder ==
    [][/\ Len(stdin') >= Len(stdin)
       /\ SubSeq(stdin', 1, Len(stdin)) = stdin
       /\ Len(Issued) > 0 =>
             /\ IsNotification(line')
             /\ Len(Issued) <= Len(line'.envelope.dataMessage.attachments)
             /\ \A i \in 1..Len(Issued) :
                    Issued[i].params.id = line'.envelope.dataMessage.attachments[i].id]_vars

(* the request of a second notification has been written after the request *)
(* of the first, whose response was read between the two notifications     *)
C13_Witness ==
    /\ IsNotification(line)
    /\ Len(messages) = 2
    /\ Len(stdin) = 2
    /\ stdin[1].params.id = IdBPng /\ stdin[2].params.id = IdA
    /\ Len(messages[1].attachmentPaths) = 1
    /\ Keys(pending_attachments) = {stdin[2].id}
    /\ pending_attachments[stdin[2].id].message_id = 2

-----------------------------------------------------------------------------
(* C14: however main() leaves the loop (end of stream, interrupt, or an     *)
(* error no handler catches), nothing is read or done after the exit; the   *)
(* exit tells the running agent to terminate, waits for it and then closes  *)
(* the connection, once; and it writes no request frame, no file and no     *)
(* record for the entries still in the table.                               *)
Place(calls, c) == CHOOSE i \in 1..Len(calls) : calls[i] = c

C14_OrderlyShutdown ==
    /\ [][pc = "loop"]_vars
    /\ [][pc' # "loop" =>
             /\ pc' \in {"eof", "interrupted", "crashed"}
             /\ UNCHANGED <<messages, durable, pending_attachments, stdin, files>>]_vars
    /\ [](pc = "loop" => agent = "running" /\ conn_open /\ finally_calls = <<>>)
    /\ [](pc # "loop" =>
             /\ agent = "terminated" /\ ~conn_open
             /\ Count(finally_calls, "terminate") = 1
             /\ Count(finally_calls, "wait") = 1
             /\ Count(finally_calls, "close") = 1
             /\ Place(finally_calls, "terminate") < Place(finally_calls, "wait")
             /\ Place(finally_calls, "wait") < Place(finally_calls, "close"))

(* main() was interrupted while a request was outstanding *)
C14_Witness ==
    /\ pc = "interrupted"
    /\ Keys(pending_attachments) # {}
    /\ agent = "terminated"
    /\ ~conn_open
    /\ finally_calls = <<"terminate", "wait", "close">>

-----------------------------------------------------------------------------
(* C15: an entry of the table stays, with the record and the attachment it   *)
(* was registered for, across every step except the reading of a frame that  *)
(* the loop hands to the resolver with the entry's key as its id: no         *)
(* notification, unrecognized frame or undecodable line, and no response for *)
(* another id, removes or alters it.                                         *)
C15_EntryKeptUntilResponse ==
    [][\A r \in Keys(pending_attachments) :
          \/ IsResponse(line') /\ line'.id = r
          \/ /\ r \in Keys(pending_attachments')
             /\ pending_attachments'[r] = pending_attachments[r]]_vars

-----------------------------------------------------------------------------
(* C16: a record is created with an empty path list, and every step leaves   *)
(* each list a prefix of what it becomes, longer by at most one path; at     *)
(* most one list grows in a step; and the path a resolved response adds is   *)
(* the last of its record's list, so the list is in the order the responses  *)
(* were read, not the order the notification listed the attachments.         *)
Paths(rows, m) == rows[m].attachmentPaths

ResponsePath(message) ==
    FilePath(pending_attachments[message.id].attachment_id,
             IF message.result.contentType = None THEN DefaultContentType
             ELSE message.result.contentType)

C16_PathsAppendOnly ==
    [][/\ Len(messages') >= Len(messages)
       /\ \A m \in 1..Len(messages') :
              IF m > Len(messages) THEN Paths(messages', m) = <<>>
              ELSE /\ Len(Paths(messages', m)) \in
                          {Len(Paths(messages, m)), Len(Paths(messages, m)) + 1}
                   /\ SubSeq(Paths(messages', m), 1, Len(Paths(messages, m))) =
                          Paths(messages, m)
       /\ Cardinality({m \in 1..Len(messages) :
                          Paths(messages', m) # Paths(messages, m)}) <= 1
       /\ (IsResponse(line') /\ Resolvable(line') /\ fault' = NoFault) =>
              LET m == pending_attachments[line'.id].message_id
              IN  Paths(messages', m) = Append(Paths(messages, m), ResponsePath(line'))]_vars

(* the responses to the two requests of a record were read in the reverse *)
(* order of the requests, and so are the paths                            *)
C16_Witness ==
    /\ IsResponse(line)
    /\ Len(stdin) = 2
    /\ stdin[1].params.id = IdA /\ stdin[2].params.id = IdBPng
    /\ Len(messages) = 1
    /\ Paths(messages, 1) = <<PathJoin(AttachmentDir, IdBPng),
                              PathJoin(AttachmentDir, IdA \o <<".", "p", "n", "g">>)>>

-----------------------------------------------------------------------------
(* C17: a response that matches an entry and carries no result, or a result  *)
(* without data, removes the entry and only it, logs an error and nothing    *)
(* else, writes no file, changes no record and writes no request frame: the  *)
(* fetch is not retried.                                                     *)
NoPayload(message) == message.result = NoneRec \/ message.result.data = <<>>

C17_NoPayloadNoRetry ==
    [][(IsResponse(line') /\ line'.id \in Keys(pending_attachments)
            /\ NoPayload(line')) =>
          /\ Keys(pending_attachments') = Keys(pending_attachments) \ {line'.id}
          /\ \A r \in Keys(pending_attachments') :
                 pending_attachments'[r] = pending_attachments[r]
          /\ Len(logged') = 1 /\ logged'[1].level = "ERROR"
          /\ UNCHANGED <<files, messages, durable, stdin>>
          /\ pc' = "loop"]_vars

(* the response to the one request of a record carried a result without *)
(* data: the record has no path and nothing is outstanding              *)
C17_Witness ==
    /\ IsResponse(line)
    /\ line.result # NoneRec
    /\ line.result.data = <<>>
    /\ logged = <<Log("ERROR", "No data in attachment response")>>
    /\ Len(stdin) = 1
    /\ line.id = stdin[1].id
    /\ Keys(pending_attachments) = {}
    /\ Len(messages) = 1
    /\ messages[1].attachmentPaths = <<>>
    /\ DOMAIN files = {}

-----------------------------------------------------------------------------
(* C18: the record every entry of the table names is a committed row of the  *)
(* store; and a step that writes request frames or registers entries has     *)
(* inserted and committed a row in that same step, the row its new entries   *)
(* name: the insert comes before the requests.                               *)
Registered ==
    {r \in Keys(pending_attachments') :
        r \notin Keys(pending_attachments) \/ pending_attachments'[r] # pending_attachments[r]}

C18_EntriesNameCommittedRecords ==
    /\ [](\A r \in Keys(pending_attachments) :
              /\ pending_attachments[r].message_id \in 1..Len(durable)
              /\ durable[pending_attachments[r].message_id].id =
                     pending_attachments[r].message_id)
    /\ [][(Len(Issued) > 0 \/ Registered # {}) =>
             /\ IsNotification(line')
             /\ Len(durable') > Len(durable)
             /\ Len(durable') = Len(messages')
             /\ RecordOf(durable'[Len(durable')], line'.envelope)
             /\ \A r \in Registered :
                    pending_attachments'[r].message_id = Len(durable')]_vars

(* the second record's request is outstanding *)
C18_Witness ==
    /\ IsNotification(line)
    /\ Len(durable) = 2
    /\ durable[1].message = "hello"
    /\ \E r \in Keys(pending_attachments) :
           /\ pending_attachments[r].message_id = 2
           /\ durable[2].message = None

-----------------------------------------------------------------------------
(* C19: a response whose id is a key of the table removes the entry whatever *)
(* becomes of the resolution: the table is one entry smaller after the       *)
(* frame; and when the decoding, the opening of the file or a call of the    *)
(* store raises, the exception is caught and logged, the entry is not put    *)
(* back, and the loop reads the next line.                                   *)
ResolutionRaised(l, f) ==
    /\ IsResponse(l)
    /\ \/ f.at \in {"open", "select", "update", "commit"}
       \/ /\ l.result # NoneRec
          /\ l.result.data # <<>>
          /\ ~B64Decode(l.result.data).ok

C19_EntryConsumedWhateverFollows ==
    /\ [][(IsResponse(line') /\ line'.id \in Keys(pending_attachments)) =>
             /\ Keys(pending_attachments') = Keys(pending_attachments) \ {line'.id}
             /\ Cardinality(Keys(pending_attachments')) =
                    Cardinality(Keys(pending_attachments)) - 1
             /\ pc' = "loop"
             /\ ResolutionRaised(line', fault') =>
                    logged'[Len(logged')] =
                        Log("ERROR", "Error processing attachment response")]_vars
    /\ []((ResolutionRaised(line, fault) /\ line.id \in {stdin[i].id : i \in 1..Len(stdin)}) =>
             /\ line.id \notin Keys(pending_attachments)
             /\ pc = "loop" /\ agent = "running" /\ conn_open
             /\ ENABLED ReadBlank)

(* the SELECT raised after the file was written: the entry is gone, the   *)
(* file is there and the record has no path                               *)
C19_Witness ==
    /\ IsResponse(line)
    /\ fault.at = "select"
    /\ Len(stdin) = 1 /\ line.id = stdin[1].id
    /\ Keys(pending_attachments) = {}
    /\ DOMAIN files # {}
    /\ messages[1].attachmentPaths = <<>>
    /\ pc = "loop"

-----------------------------------------------------------------------------
(* C20: every path in the path list of a record, as the cursor sees it and   *)
(* as committed, names a file of the attachment directory; and the step that *)
(* puts a path in a list has written that file with the decoded data, its    *)
(* open not having raised.                                                   *)
Listed(rows) ==
    UNION {{Paths(rows, m)[i] : i \in 1..Len(Paths(rows, m))} : m \in 1..Len(rows)}

C20_ListedPathsAreFiles ==
    /\ [](Listed(messages) \cup Listed(durable) \subseteq DOMAIN files)
    /\ [][\A m \in 1..Len(messages) :
             Paths(messages', m) # Paths(messages, m) =>
                 LET path == Paths(messages', m)[Len(Paths(messages', m))]
                 IN  /\ IsResponse(line')
                     /\ fault'.at # "open"
                     /\ path = ResponsePath(line')
                     /\ path \in DOMAIN files'
                     /\ files'[path] = B64Decode(line'.result.data).bytes]_vars

(* the commit of the path raised: the cursor sees the path, the committed *)
(* row does not have it, and the file is written                          *)
C20_Witness ==
    /\ IsResponse(line)
    /\ fault.at = "commit"
    /\ Len(messages) = 1
    /\ Paths(messages, 1) = <<PathJoin(AttachmentDir, IdBPng)>>
    /\ Paths(durable, 1) = <<>>
    /\ files[PathJoin(AttachmentDir, IdBPng)] = <<88>>

=============================================================================
